---- MODULE Spec2Model ----
(***************************************************************************)
(* LeaseVectorStore (backend/utils/retriever.py): the in-memory vector     *)
(* store, its mutation operations, and its similarity search.              *)
(*                                                                         *)
(* Python lists are sequences; a Python position p (0-based) is the        *)
(* sequence index p + 1.  The metadata dict is a function whose domain is  *)
(* the set of its integer keys (Python positions).  A metadata dict value  *)
(* is a string: "{}" is the empty dict, "None" the absent argument.        *)
(***************************************************************************)
EXTENDS Integers, Sequences, FiniteSets, TLC

VARIABLES embeddings, texts, metadata, last, disk, saving, kb

vars == <<embeddings, texts, metadata, last, disk, saving, kb>>

(* ------------------------------ bounds --------------------------------- *)

\* most records a store holds in the model
MaxLen == 3

\* the most records a store scanned for duplicates holds (two clusters need four)
MaxRecords == 4

\* the most words a question given to the router holds
MaxWords == 2

\* stored vectors, texts and metadata values the mutation operations draw from
Vecs == {<<1, 0>>, <<0, 1>>}
Texts == {"a", "b"}
MetaArgs == {"None", "{}", "m1"}

\* stored vectors and query vectors the search operations draw from
SearchVecs == {<<1, 0>>, <<0, 1>>, <<1, 1>>}
Queries == {<<2, 1>>, <<1, 1>>, <<1>>}

(* --------------------------- Python helpers ---------------------------- *)

\* bool(x) of a metadata dict argument: None and {} are falsy
Truthy(m) == m \notin {"None", "{}"}

\* the empty dict
EmptyDict == [p \in {} |-> "None"]

\* del lst[p] for a valid Python position p
DelAt(seq, p) == [i \in 1..(Len(seq) - 1) |-> IF i <= p THEN seq[i] ELSE seq[i + 1]]

\* lst[p] = x for a valid Python position p
SetAt(seq, p, x) == [seq EXCEPT ![p + 1] = x]

\* d[k] = v on a dict
DictPut(d, k, v) == [p \in (DOMAIN d) \cup {k} |-> IF p = k THEN v ELSE d[p]]

\* the store as one value
Store(e, t, m) == [embeddings |-> e, texts |-> t, metadata |-> m]

Current == Store(embeddings, texts, metadata)

\* LeaseVectorStore.__init__
EmptyStore == Store(<<>>, <<>>, EmptyDict)

\* the outcome of an operation: the store it leaves and the exception it raised
Outcome(s, exc) == [store |-> s, raised |-> exc]

(* --------------------------- add_embeddings ---------------------------- *)

\* the metadata loop of add_embeddings: self.metadata[len(self.texts) - len(texts) + i] = meta
AddMeta(d, base, items) ==
    [p \in (DOMAIN d) \cup {base + i - 1 : i \in 1..Len(items)} |->
        IF p \in {base + i - 1 : i \in 1..Len(items)} THEN items[p - base + 1] ELSE d[p]]

\* add_embeddings(embeddings, texts, metadata); md.given = FALSE is metadata=None
AddEmbeddingsOp(s, embs, txts, md) ==
    IF Len(embs) # Len(txts)
    THEN Outcome(s, "ValueError")
    ELSE LET e1 == s.embeddings \o embs
             t1 == s.texts \o txts
         IN  IF md.given /\ Len(md.items) > 0
             THEN IF Len(md.items) # Len(txts)
                  THEN Outcome(Store(e1, t1, s.metadata), "ValueError")
                  ELSE Outcome(Store(e1, t1,
                                     AddMeta(s.metadata, Len(t1) - Len(txts), md.items)),
                               "")
             ELSE Outcome(Store(e1, t1, s.metadata), "")

(* --------------------------- add_single_text --------------------------- *)

AddSingleTextOp(s, e, t, m) ==
    LET e1 == Append(s.embeddings, e)
        t1 == Append(s.texts, t)
    IN  Outcome(Store(e1, t1, IF Truthy(m) THEN DictPut(s.metadata, Len(t1) - 1, m)
                                           ELSE s.metadata), "")

(* --------------------------- remove_by_index --------------------------- *)

\* sorted(set(indices), reverse=True)
RECURSIVE SortedDesc(_)
SortedDesc(S) ==
    IF S = {} THEN <<>>
    ELSE LET mx == CHOOSE x \in S : \A y \in S : y <= x
         IN  <<mx>> \o SortedDesc(S \ {mx})

RECURSIVE SortedAsc(_)
SortedAsc(S) ==
    IF S = {} THEN <<>>
    ELSE LET mn == CHOOSE x \in S : \A y \in S : x <= y
         IN  <<mn>> \o SortedAsc(S \ {mn})

\* sorted(indices, reverse=True), duplicates kept
RECURSIVE SortedDescSeq(_)
SortedDescSeq(seq) ==
    IF seq = <<>> THEN <<>>
    ELSE LET i == CHOOSE x \in DOMAIN seq : \A y \in DOMAIN seq : seq[y] <= seq[x]
         IN  <<seq[i]>> \o SortedDescSeq(SubSeq(seq, 1, i - 1) \o SubSeq(seq, i + 1, Len(seq)))

IndexOrder_NoDedup(indices) == SortedDescSeq(indices)

IndexOrder_Ascending(indices) == SortedAsc({indices[i] : i \in DOMAIN indices})

IndexOrder(indices) == SortedDesc({indices[i] : i \in DOMAIN indices})

\* the metadata of remove_by_index after deleting position idx:
\* the entry at idx is dropped, keys above idx move down by one
RemapMeta_NoShift(d, idx) ==
    [p \in (DOMAIN d) \ {idx} |-> d[p]]

RemapMeta(d, idx) ==
    LET kept == (DOMAIN d) \ {idx}
        newKeys == {IF p > idx THEN p - 1 ELSE p : p \in kept}
    IN  [q \in newKeys |-> IF q >= idx /\ (q + 1) \in kept THEN d[q + 1] ELSE d[q]]

\* one iteration of the loop body for idx
RemoveOne(s, idx) ==
    IF 0 <= idx /\ idx < Len(s.texts)
    THEN LET t1 == DelAt(s.texts, idx)
         IN  IF idx >= Len(s.embeddings)
             THEN Outcome(Store(s.embeddings, t1, s.metadata), "IndexError")
             ELSE Outcome(Store(DelAt(s.embeddings, idx), t1, RemapMeta(s.metadata, idx)), "")
    ELSE Outcome(s, "")

\* the loop over the ordered indices; an exception ends it
RECURSIVE RemoveLoop(_, _)
RemoveLoop(s, order) ==
    IF order = <<>> THEN Outcome(s, "")
    ELSE LET o == RemoveOne(s, Head(order))
         IN  IF o.raised # "" THEN o ELSE RemoveLoop(o.store, Tail(order))

RemoveByIndexOp(s, indices) == RemoveLoop(s, IndexOrder(indices))

(* ----------------------------- update_text ----------------------------- *)

\* update_text with the lower bound of the index test left out: a negative index
\* counts from the end of the list
UpdateTextOp_NoLowerBound(s, index, new_text, new_embedding, new_metadata) ==
    LET at == IF index < 0 THEN Len(s.texts) + index ELSE index
    IN  IF index < Len(s.texts) /\ 0 <= at /\ at < Len(s.embeddings)
        THEN Outcome(Store(IF new_embedding # <<>>
                               THEN SetAt(s.embeddings, at, new_embedding)
                               ELSE s.embeddings,
                           SetAt(s.texts, at, new_text),
                           IF Truthy(new_metadata)
                               THEN DictPut(s.metadata, index, new_metadata)
                               ELSE s.metadata), "")
        ELSE Outcome(s, "IndexError")

\* new_embedding = <<>> stands for None (an empty list is falsy too)
UpdateTextOp(s, index, new_text, new_embedding, new_metadata) ==
    IF 0 <= index /\ index < Len(s.texts)
    THEN LET t1 == SetAt(s.texts, index, new_text)
         IN  IF new_embedding # <<>> /\ index >= Len(s.embeddings)
             THEN Outcome(Store(s.embeddings, t1, s.metadata), "IndexError")
             ELSE Outcome(Store(IF new_embedding # <<>>
                                    THEN SetAt(s.embeddings, index, new_embedding)
                                    ELSE s.embeddings,
                                t1,
                                IF Truthy(new_metadata)
                                    THEN DictPut(s.metadata, index, new_metadata)
                                    ELSE s.metadata), "")
    ELSE Outcome(s, "IndexError")

(* -------------------------------- clear -------------------------------- *)

ClearOp(s) == Outcome(EmptyStore, "")

(* -------------------------------- load --------------------------------- *)

\* what load(path) finds at the path: no file, bytes pickle cannot parse, or a
\* pickled dict holding the keys in `keys`
NoFile == [exists |-> FALSE, parses |-> FALSE, keys |-> {},
           embeddings |-> <<>>, texts |-> <<>>, metadata |-> EmptyDict]

Garbage == [NoFile EXCEPT !.exists = TRUE]

\* a pickled dict that leaves the metadata out
BlobOf_NoMetadata(s) ==
    [exists |-> TRUE, parses |-> TRUE, keys |-> {"embeddings", "texts", "version"},
     embeddings |-> s.embeddings, texts |-> s.texts, metadata |-> EmptyDict]

\* the dict save() pickles for store s
BlobOf(s) == [exists |-> TRUE, parses |-> TRUE,
              keys |-> {"embeddings", "texts", "metadata", "version"},
              embeddings |-> s.embeddings, texts |-> s.texts, metadata |-> s.metadata]

\* store_data.get(key, default)
Get(file, key, value, default) == IF key \in file.keys THEN value ELSE default

\* load that extends what the store holds instead of replacing it
LoadOp_Merge(s, file) ==
    IF ~file.exists THEN Outcome(s, "FileNotFoundError")
    ELSE IF ~file.parses THEN Outcome(s, "Exception")
    ELSE Outcome(Store(s.embeddings \o Get(file, "embeddings", file.embeddings, <<>>),
                       s.texts \o Get(file, "texts", file.texts, <<>>),
                       [p \in (DOMAIN s.metadata)
                                 \cup DOMAIN Get(file, "metadata", file.metadata, EmptyDict) |->
                           IF p \in DOMAIN Get(file, "metadata", file.metadata, EmptyDict)
                               THEN file.metadata[p] ELSE s.metadata[p]]), "")

LoadOp(s, file) ==
    IF ~file.exists THEN Outcome(s, "FileNotFoundError")
    ELSE IF ~file.parses THEN Outcome(s, "Exception")
    ELSE Outcome(Store(Get(file, "embeddings", file.embeddings, <<>>),
                       Get(file, "texts", file.texts, <<>>),
                       Get(file, "metadata", file.metadata, EmptyDict)), "")

\* the files load is given: none, an unparsable one, blobs written by save, and
\* dicts that lack a key
SavedOne == BlobOf(Store(<<(<<1, 0>>)>>, <<"a">>, [p \in {0} |-> "m1"]))
SavedTwo == BlobOf(Store(<<(<<0, 1>>), (<<1, 0>>)>>, <<"b", "a">>, [p \in {1} |-> "m1"]))

Files == {NoFile, Garbage, SavedOne, SavedTwo, BlobOf(EmptyStore),
          [SavedOne EXCEPT !.keys = @ \ {"texts"}],
          [SavedOne EXCEPT !.keys = @ \ {"embeddings"}],
          [SavedTwo EXCEPT !.keys = @ \ {"metadata"}]}

(* ------------------------------- search ------------------------------- *)

Dot(u, v) == IF Len(u) = 1 THEN u[1] * v[1] ELSE u[1] * v[1] + u[2] * v[2]

\* sklearn's normalize leaves a zero row as it is (its norm is taken as 1)
Norm2(v) == IF Dot(v, v) = 0 THEN 1 ELSE Dot(v, v)

RECURSIVE Gcd(_, _)
Gcd(a, b) == IF b = 0 THEN a ELSE Gcd(b, a % b)

Sign(x) == IF x > 0 THEN 1 ELSE IF x < 0 THEN -1 ELSE 0

\* cosine_similarity(q, v) as an exact value: its sign and its square in lowest terms
Cosine(q, v) ==
    LET d == Dot(q, v)
        n == d * d
        m == Norm2(q) * Norm2(v)
        g == Gcd(m, n)
    IN  [sign |-> Sign(d), num |-> n \div g, den |-> m \div g]

\* a <= b on cosine values (x |-> sign(x) * x^2 is increasing)
ScoreLeq(a, b) == a.sign * a.num * b.den <= b.sign * b.num * a.den

ScoreLess(a, b) == ~ScoreLeq(b, a)

\* no width test at all: any query is scored against any rows
SameWidth_Unchecked(s, q) == TRUE

\* cosine_similarity raises ValueError unless the rows form a matrix as wide as q
SameWidth(s, q) == \A i \in 1..Len(s.embeddings) : Len(s.embeddings[i]) = Len(q)

\* similarities[p] for a Python position p
Similarity(s, q, p) == Cosine(q, s.embeddings[p + 1])

\* np.argsort(similarities): a permutation of the positions in ascending order of
\* similarity; the default sort kind is not stable, so equal similarities come in
\* any order
RECURSIVE AscendingOrders(_, _)
AscendingOrders(sims, S) ==
    IF S = {} THEN {<<>>}
    ELSE UNION {{<<p>> \o rest : rest \in AscendingOrders(sims, S \ {p})} :
                p \in {x \in S : \A y \in S : ScoreLeq(sims[x + 1], sims[y + 1])}}

ArgSorts(s, q) ==
    IF s.embeddings = <<>> \/ ~SameWidth(s, q) THEN {<<>>}
    ELSE AscendingOrders([i \in 1..Len(s.embeddings) |-> Cosine(q, s.embeddings[i])],
                         0..(Len(s.embeddings) - 1))

\* seq[::-1]
Reversed(seq) == [i \in 1..Len(seq) |-> seq[Len(seq) + 1 - i]]

\* seq[:k], k any integer
SliceTo(seq, k) ==
    IF k >= 0 THEN SubSeq(seq, 1, IF k < Len(seq) THEN k ELSE Len(seq))
    ELSE SubSeq(seq, 1, IF Len(seq) + k > 0 THEN Len(seq) + k ELSE 0)

\* the result dict built for position idx; metadata "None" is the missing key
ResultAt(s, q, idx) ==
    [text |-> s.texts[idx + 1], score |-> Similarity(s, q, idx),
     metadata |-> IF idx \in DOMAIN s.metadata THEN s.metadata[idx] ELSE "None"]

\* top_indices = np.argsort(similarities)[::-1][:k], for the order argsort gave
TopIndices_Ascending(order, k) == SliceTo(order, k)

TopIndices(order, k) == SliceTo(Reversed(order), k)

\* what a query hands back: the exception raised, or its top_indices and results
Returned(top, res) == [raised |-> "", top |-> top, result |-> res]

Raised(exc) == [raised |-> exc, top |-> <<>>, result |-> <<>>]

\* search(query_embedding, k), `order` being what np.argsort returns
SearchOp(s, q, k, order) ==
    IF s.embeddings = <<>> THEN Returned(<<>>, <<>>)
    ELSE IF ~SameWidth(s, q) THEN Raised("ValueError")
    ELSE LET top == TopIndices(order, k)
         IN  IF \E i \in 1..Len(top) : top[i] >= Len(s.texts)
             THEN Raised("IndexError")
             ELSE Returned(top, [i \in 1..Len(top) |-> ResultAt(s, q, top[i])])

(* -------------------------- search_with_filter ------------------------- *)

\* the filter functions callers pass; "None" is filter_func=None.  A result
\* without metadata is given {} as its metadata
Filters == {"None", "any", "text_a", "has_meta"}

Accepts(f, text, md) ==
    CASE f = "any" -> TRUE
      [] f = "text_a" -> text = "a"
      [] f = "has_meta" -> Truthy(md)
      [] OTHER -> FALSE

\* the filtering loop: append a result that passes, then stop once k are kept
RECURSIVE FilterLoop(_, _, _, _)
FilterLoop(f, k, rest, kept) ==
    IF rest = <<>> THEN kept
    ELSE LET r == Head(rest)
         IN  IF Accepts(f, r.text, IF r.metadata = "None" THEN "{}" ELSE r.metadata)
             THEN IF Len(kept) + 1 >= k
                  THEN Append(kept, r)
                  ELSE FilterLoop(f, k, Tail(rest), Append(kept, r))
             ELSE FilterLoop(f, k, Tail(rest), kept)

\* search_with_filter(query_embedding, k, filter_func), `order` being what
\* np.argsort returns inside search; `top` is the ranking of all_results
SearchWithFilterOp(s, q, k, f, order) ==
    IF s.embeddings = <<>> THEN Returned(<<>>, <<>>)
    ELSE LET all == SearchOp(s, q, Len(s.texts), order)
         IN  IF all.raised # "" THEN all
             ELSE IF f # "None" THEN Returned(all.top, FilterLoop(f, k, all.result, <<>>))
             ELSE Returned(all.top, SliceTo(all.result, k))

(* --------------------------- find_duplicates --------------------------- *)

\* the similarity_threshold values callers pass (1.0, 0.95, 0.7, 0.0), each as
\* the exact value Cosine gives
Thresholds == {[sign |-> 1, num |-> 1, den |-> 1], [sign |-> 1, num |-> 361, den |-> 400],
               [sign |-> 1, num |-> 49, den |-> 100], [sign |-> 0, num |-> 0, den |-> 1]}

\* np.array(self.embeddings) is a matrix only when every row has the same width
Rectangular(s) ==
    \A i, j \in 1..Len(s.embeddings) : Len(s.embeddings[i]) = Len(s.embeddings[j])

\* the positions of S in ascending order, as range() visits them
RECURSIVE Ascending(_)
Ascending(S) ==
    IF S = {} THEN <<>>
    ELSE LET m == CHOOSE x \in S : \A y \in S : x <= y
         IN  <<m>> \o Ascending(S \ {m})

\* the inner loop without its test of `processed`
SimilarTo_IgnoreProcessed(s, threshold, i, processed) ==
    {j \in (i + 1)..(Len(s.embeddings) - 1) :
        ScoreLeq(threshold, Cosine(s.embeddings[i + 1], s.embeddings[j + 1]))}

\* the positions the inner loop collects for i: each j > i that is not processed
\* and has similarity_matrix[i][j] >= similarity_threshold
SimilarTo(s, threshold, i, processed) ==
    {j \in (i + 1)..(Len(s.embeddings) - 1) :
        /\ j \notin processed
        /\ ScoreLeq(threshold, Cosine(s.embeddings[i + 1], s.embeddings[j + 1]))}

\* the outer loop from position i on: the clusters it appends to `duplicates`
RECURSIVE DuplicatesFrom(_, _, _, _)
DuplicatesFrom(s, threshold, i, processed) ==
    IF i >= Len(s.embeddings) THEN <<>>
    ELSE IF i \in processed THEN DuplicatesFrom(s, threshold, i + 1, processed)
    ELSE LET similar == SimilarTo(s, threshold, i, processed)
         IN  IF similar = {} THEN DuplicatesFrom(s, threshold, i + 1, processed)
             ELSE <<(<<i>> \o Ascending(similar))>>
                      \o DuplicatesFrom(s, threshold, i + 1, processed \cup similar \cup {i})

FindDuplicatesOp(s, threshold) ==
    IF Len(s.embeddings) < 2 THEN Returned(<<>>, <<>>)
    ELSE IF ~Rectangular(s) THEN Raised("ValueError")
    ELSE Returned(<<>>, DuplicatesFrom(s, threshold, 0, {}))

(* ------------------------------ get_stats ------------------------------ *)

\* get_stats that takes a store of records to have metadata
GetStatsOp_MetadataAssumed(s) ==
    IF s.embeddings = <<>>
    THEN [total_texts |-> 0, embedding_dimension |-> 0, has_metadata |-> FALSE]
    ELSE [total_texts |-> Len(s.texts), embedding_dimension |-> Len(s.embeddings[1]),
          has_metadata |-> TRUE,
          metadata_coverage |-> <<Cardinality(DOMAIN s.metadata), Len(s.texts)>>]

\* the dict get_stats returns; metadata_coverage is the pair numerator, denominator
GetStatsOp(s) ==
    IF s.embeddings = <<>>
    THEN [total_texts |-> 0, embedding_dimension |-> 0, has_metadata |-> FALSE]
    ELSE [total_texts |-> Len(s.texts), embedding_dimension |-> Len(s.embeddings[1]),
          has_metadata |-> Cardinality(DOMAIN s.metadata) > 0,
          metadata_coverage |-> IF s.texts # <<>>
                                THEN <<Cardinality(DOMAIN s.metadata), Len(s.texts)>>
                                ELSE <<0, 1>>]

(* ------------------------------ the store ------------------------------ *)

NoArg == [none |-> TRUE]

\* `last` is the call that has just returned, until its caller has taken the result
Idle == [op |-> "idle", pre |-> EmptyStore, arg |-> NoArg, raised |-> "",
         top |-> <<>>, result |-> <<>>]

\* the knowledge bases of an InternalKBAgent; kb[c] holds the agent's cached
\* vector store for c, the file at c's vector path and c's source records
Corpora == {"qa", "property", "master_clauses"}

\* self.<c>_vector_store: None, or a LeaseVectorStore with the content `store`
NoStore == [set |-> FALSE, store |-> EmptyStore]
Holding(s) == [set |-> TRUE, store |-> s]

\* `disk` is the file at the path the store is saved to; `saving` is where a save
\* of the store stands: not running, or between open(path, "wb") and pickle.dump,
\* with the content the file had before the open
NotSaving == [pc |-> "no", prev |-> NoFile]

Init ==
    /\ embeddings = <<>>
    /\ texts = <<>>
    /\ metadata = EmptyDict
    /\ last = Idle
    /\ disk = NoFile
    /\ saving = NotSaving
    /\ kb = [c \in Corpora |-> [cache |-> NoStore, disk |-> NoFile, data |-> <<>>]]

\* a mutating operation that ran on the store: it leaves o.store and raised o.raised
Ran(op, arg, o) ==
    /\ embeddings' = o.store.embeddings
    /\ texts' = o.store.texts
    /\ metadata' = o.store.metadata
    /\ last' = [op |-> op, pre |-> Current, arg |-> arg, raised |-> o.raised,
                top |-> <<>>, result |-> <<>>]
    /\ UNCHANGED <<disk, saving, kb>>

\* a query that ran on the store, with outcome r
Asked(op, arg, r) ==
    /\ UNCHANGED <<embeddings, texts, metadata, disk, saving, kb>>
    /\ last' = [op |-> op, pre |-> Current, arg |-> arg, raised |-> r.raised,
                top |-> r.top, result |-> r.result]

\* the caller takes the result (or the exception) and goes on
Return ==
    /\ last.op # "idle"
    /\ last' = Idle
    /\ UNCHANGED <<embeddings, texts, metadata, disk, saving, kb>>

\* the model keeps a store within MaxLen records
Fits(n) == Len(embeddings) + n <= MaxLen /\ Len(texts) + n <= MaxLen

EmbBatches == {<<>>, <<(<<1, 0>>)>>, <<(<<1, 0>>), (<<0, 1>>)>>}
TextBatches == {<<>>, <<"a">>, <<"a", "b">>}
MetaBatches == {[given |-> FALSE, items |-> <<>>], [given |-> TRUE, items |-> <<>>],
                [given |-> TRUE, items |-> <<"m1">>],
                [given |-> TRUE, items |-> <<"m1", "m1">>]}

AddEmbeddings ==
    /\ last.op = "idle"
    /\ \E embs \in EmbBatches, txts \in TextBatches, md \in MetaBatches :
            /\ Fits(Len(embs)) /\ Fits(Len(txts))
            /\ Ran("add_embeddings", [embeddings |-> embs, texts |-> txts, metadata |-> md],
                   AddEmbeddingsOp(Current, embs, txts, md))

AddSingleText ==
    /\ last.op = "idle"
    /\ \E e \in Vecs, t \in Texts, m \in MetaArgs :
            /\ Fits(1)
            /\ Ran("add_single_text", [embedding |-> e, text |-> t, metadata |-> m],
                   AddSingleTextOp(Current, e, t, m))

IndexArgs == (-1)..MaxLen
IndexLists == {<<>>} \cup {<<i>> : i \in IndexArgs}
                    \cup {<<i, j>> : i \in IndexArgs, j \in IndexArgs}

RemoveByIndex ==
    /\ last.op = "idle"
    /\ \E indices \in IndexLists :
            Ran("remove_by_index", [indices |-> indices], RemoveByIndexOp(Current, indices))

UpdateText ==
    /\ last.op = "idle"
    /\ \E index \in IndexArgs, t \in Texts, e \in {<<>>, <<0, 1>>}, m \in MetaArgs :
            Ran("update_text", [index |-> index, new_text |-> t, new_embedding |-> e,
                                new_metadata |-> m],
                UpdateTextOp(Current, index, t, e, m))

Load ==
    /\ last.op = "idle"
    /\ \E file \in Files :
            Ran("load", [file |-> file], LoadOp(Current, file))

Clear ==
    /\ last.op = "idle"
    /\ Ran("clear", NoArg, ClearOp(Current))

Next ==
    \/ AddEmbeddings
    \/ AddSingleText
    \/ RemoveByIndex
    \/ UpdateText
    \/ Load
    \/ Clear
    \/ Return

Spec == Init /\ [][Next]_vars

(* ---------------------------- the search runs -------------------------- *)

\* the records a searched store is populated with
SearchRecords == {<<"a", "None">>, <<"b", "m1">>}

KArgs == {-1, 0, 1, 2, MaxLen + 1}

Populate ==
    /\ last.op = "idle"
    /\ \E e \in SearchVecs, r \in SearchRecords :
            /\ Fits(1)
            /\ Ran("add_single_text", [embedding |-> e, text |-> r[1], metadata |-> r[2]],
                   AddSingleTextOp(Current, e, r[1], r[2]))

Search ==
    /\ last.op = "idle"
    /\ \E q \in Queries :
            \E order \in ArgSorts(Current, q) :
                \E k \in KArgs :
                    Asked("search", [q |-> q, k |-> k, filter |-> "None"],
                          SearchOp(Current, q, k, order))

SearchWithFilter ==
    /\ last.op = "idle"
    /\ \E q \in Queries :
            \E order \in ArgSorts(Current, q) :
                \E k \in KArgs, f \in Filters :
                    Asked("search_with_filter", [q |-> q, k |-> k, filter |-> f],
                          SearchWithFilterOp(Current, q, k, f, order))

NextSearch ==
    \/ Populate
    \/ Search
    \/ SearchWithFilter
    \/ Return

SpecSearch == Init /\ [][NextSearch]_vars

(* ------------------------ the duplicate scans ------------------------- *)

\* the vectors a scanned store collects; <<1>> makes the rows ragged
DupVecs == SearchVecs \cup {<<1>>}

Collect ==
    /\ last.op = "idle"
    /\ Len(embeddings) < MaxRecords
    /\ \E e \in DupVecs :
            Ran("add_single_text", [embedding |-> e, text |-> "a", metadata |-> "None"],
                AddSingleTextOp(Current, e, "a", "None"))

FindDuplicates ==
    /\ last.op = "idle"
    /\ \E threshold \in Thresholds :
            Asked("find_duplicates", [threshold |-> threshold],
                  FindDuplicatesOp(Current, threshold))

NextDuplicates ==
    \/ Collect
    \/ FindDuplicates
    \/ Return

SpecDuplicates == Init /\ [][NextDuplicates]_vars

(* ------------------------- saving and loading -------------------------- *)

\* the records a saved store is filled with
PersistRecords == {<<(<<1, 0>>), "a", "None">>, <<(<<0, 1>>), "b", "m1">>,
                   <<(<<1, 0>>), "b", "None">>}

Fill ==
    /\ last.op = "idle"
    /\ saving.pc = "no"
    /\ \E r \in PersistRecords :
            /\ Fits(1)
            /\ Ran("add_single_text", [embedding |-> r[1], text |-> r[2], metadata |-> r[3]],
                   AddSingleTextOp(Current, r[1], r[2], r[3]))

Empty ==
    /\ last.op = "idle"
    /\ saving.pc = "no"
    /\ Ran("clear", NoArg, ClearOp(Current))

\* how a save taken as one call ends: it completes, open() raises, or pickle.dump
\* raises part-way
SaveOutcomes == {"ok", "refused", "partial"}

\* what save(path) returned: `prev` is what the file held when save was called
Saved(prev, exc) ==
    [op |-> "save", pre |-> Current, arg |-> [prev |-> prev], raised |-> exc,
     top |-> <<>>, result |-> <<>>]

\* os.makedirs or open(path, "wb") raises: nothing is written
SaveRefused ==
    /\ last.op = "idle"
    /\ saving.pc = "no"
    /\ last' = Saved(disk, "Exception")
    /\ UNCHANGED <<embeddings, texts, metadata, disk, saving, kb>>

\* open(path, "wb") creates the file or truncates it to zero bytes
SaveOpen ==
    /\ last.op = "idle"
    /\ saving.pc = "no"
    /\ disk' = Garbage
    /\ saving' = [pc |-> "opened", prev |-> disk]
    /\ UNCHANGED <<embeddings, texts, metadata, last, kb>>

\* pickle.dump writes the dict and the file is closed
SaveDump ==
    /\ last.op = "idle"
    /\ saving.pc = "opened"
    /\ disk' = BlobOf(Current)
    /\ saving' = NotSaving
    /\ last' = Saved(saving.prev, "")
    /\ UNCHANGED <<embeddings, texts, metadata, kb>>

\* pickle.dump raises part-way: the file keeps the bytes written so far
SaveDumpFails ==
    /\ last.op = "idle"
    /\ saving.pc = "opened"
    /\ disk' = Garbage
    /\ saving' = NotSaving
    /\ last' = Saved(saving.prev, "Exception")
    /\ UNCHANGED <<embeddings, texts, metadata, kb>>

\* the store loads the path it saves to
LoadSaved ==
    /\ last.op = "idle"
    /\ saving.pc = "no"
    /\ Ran("load", [file |-> disk], LoadOp(Current, disk))

\* a fresh store of another request or process loads the same path; it can run
\* between the two steps of a save
LoadElsewhere ==
    /\ last.op = "idle"
    /\ last' = [op |-> "load_elsewhere", pre |-> EmptyStore, arg |-> [file |-> disk],
                raised |-> LoadOp(EmptyStore, disk).raised, top |-> <<>>,
                result |-> <<LoadOp(EmptyStore, disk).store>>]
    /\ UNCHANGED <<embeddings, texts, metadata, disk, saving, kb>>

NextPersist ==
    \/ Fill
    \/ Empty
    \/ SaveRefused
    \/ SaveOpen
    \/ SaveDump
    \/ SaveDumpFails
    \/ LoadSaved
    \/ LoadElsewhere
    \/ Return

SpecPersist == Init /\ [][NextPersist]_vars

(* --------------------------- the read-only calls ----------------------- *)

\* the records a store is stocked with before it is queried; <<1>> makes the
\* rows ragged, so that the matrix calls raise
ReadRecords == {<<(<<1, 0>>), "a", "m1">>, <<(<<1>>), "b", "None">>}

Stock ==
    /\ last.op = "idle"
    /\ \E r \in ReadRecords :
            /\ Fits(1)
            /\ Ran("add_single_text", [embedding |-> r[1], text |-> r[2], metadata |-> r[3]],
                   AddSingleTextOp(Current, r[1], r[2], r[3]))

GetStats ==
    /\ last.op = "idle"
    /\ Asked("get_stats", NoArg, Returned(<<>>, <<GetStatsOp(Current)>>))

\* save(path) as one call: it completes, or raises before or while writing
Save ==
    /\ last.op = "idle"
    /\ \E save \in SaveOutcomes :
            /\ disk' = (IF save = "ok" THEN BlobOf(Current)
                        ELSE IF save = "partial" THEN Garbage ELSE disk)
            /\ last' = Saved(disk, IF save = "ok" THEN "" ELSE "Exception")
    /\ UNCHANGED <<embeddings, texts, metadata, saving, kb>>

NextReadOnly ==
    \/ Stock
    \/ Search
    \/ SearchWithFilter
    \/ FindDuplicates
    \/ GetStats
    \/ Save
    \/ Return

SpecReadOnly == Init /\ [][NextReadOnly]_vars

(* -------------------------- classify_question -------------------------- *)

\* a string is the sequence of its characters
property_keywords ==
    <<<<"p", "r", "o", "p", "e", "r", "t", "y">>,
      <<"a", "d", "d", "r", "e", "s", "s">>,
      <<"f", "l", "o", "o", "r">>,
      <<"s", "u", "i", "t", "e">>,
      <<"r", "e", "n", "t">>,
      <<"s", "f">>,
      <<"s", "q", "u", "a", "r", "e", " ", "f", "e", "e", "t">>,
      <<"b", "r", "o", "k", "e", "r">>,
      <<"a", "s", "s", "o", "c", "i", "a", "t", "e">>,
      <<"l", "e", "a", "s", "e">>,
      <<"m", "o", "n", "t", "h", "l", "y">>,
      <<"a", "n", "n", "u", "a", "l">>,
      <<"g", "c", "i">>>>

legal_keywords ==
    <<<<"c", "o", "n", "t", "r", "a", "c", "t">>,
      <<"a", "g", "r", "e", "e", "m", "e", "n", "t">>,
      <<"c", "l", "a", "u", "s", "e">>,
      <<"t", "e", "r", "m">>,
      <<"e", "x", "p", "i", "r", "a", "t", "i", "o", "n">>,
      <<"r", "e", "n", "e", "w", "a", "l">>,
      <<"g", "o", "v", "e", "r", "n", "i", "n", "g", " ", "l", "a", "w">>,
      <<"n", "o", "n", "-", "c", "o", "m", "p", "e", "t", "e">>,
      <<"e", "x", "c", "l", "u", "s", "i", "v", "i", "t", "y">>,
      <<"t", "e", "r", "m", "i", "n", "a", "t", "i", "o", "n">>,
      <<"a", "s", "s", "i", "g", "n", "m", "e", "n", "t">>,
      <<"l", "i", "c", "e", "n", "s", "e">>,
      <<"w", "a", "r", "r", "a", "n", "t", "y">>,
      <<"i", "n", "s", "u", "r", "a", "n", "c", "e">>,
      <<"l", "i", "a", "b", "i", "l", "i", "t", "y">>>>

\* str.lower() on one character
LowerChar(c) ==
    CASE
            c = "A" -> "a"
         [] c = "B" -> "b"
         [] c = "C" -> "c"
         [] c = "D" -> "d"
         [] c = "E" -> "e"
         [] c = "F" -> "f"
         [] c = "G" -> "g"
         [] c = "H" -> "h"
         [] c = "I" -> "i"
         [] c = "J" -> "j"
         [] c = "K" -> "k"
         [] c = "L" -> "l"
         [] c = "M" -> "m"
         [] c = "N" -> "n"
         [] c = "O" -> "o"
         [] c = "P" -> "p"
         [] c = "Q" -> "q"
         [] c = "R" -> "r"
         [] c = "S" -> "s"
         [] c = "T" -> "t"
         [] c = "U" -> "u"
         [] c = "V" -> "v"
         [] c = "W" -> "w"
         [] c = "X" -> "x"
         [] c = "Y" -> "y"
         [] c = "Z" -> "z"
         [] OTHER -> c

\* question.lower()
Lower(str) == [i \in 1..Len(str) |-> LowerChar(str[i])]

\* keyword in question_lower: the keyword occurs at some offset, inside a longer
\* word or not
Contains(str, keyword) ==
    \E p \in 1..(Len(str) - Len(keyword) + 1) :
        SubSeq(str, p, p + Len(keyword) - 1) = keyword

\* sum(1 for keyword in keywords if keyword in question_lower)
RECURSIVE Matches(_, _)
Matches(keywords, question_lower) ==
    IF keywords = <<>> THEN 0
    ELSE (IF Contains(question_lower, Head(keywords)) THEN 1 ELSE 0)
             + Matches(Tail(keywords), question_lower)

\* the if / elif / else with the tie given to 'property'
Route_TieToProperty(property_matches, legal_matches) ==
    IF property_matches >= legal_matches THEN "property"
    ELSE "master_clauses"

\* the if / elif / else on the two counts
Route(property_matches, legal_matches) ==
    IF property_matches > legal_matches THEN "property"
    ELSE IF legal_matches > property_matches THEN "master_clauses"
    ELSE "qa"

\* classify_question(question): the two counts and the knowledge base returned
ClassifyQuestionOp(question) ==
    LET question_lower == Lower(question)
        property_matches == Matches(property_keywords, question_lower)
        legal_matches == Matches(legal_keywords, question_lower)
    IN  [property_matches |-> property_matches, legal_matches |-> legal_matches,
         kb_type |-> Route(property_matches, legal_matches)]

\* the words questions are made of, and the questions: up to MaxWords words
\* joined by single spaces
Words ==
    {<<"r", "e", "n", "t">>,
     <<"c", "u", "r", "r", "e", "n", "t">>,
     <<"T", "e", "r", "m">>,
     <<"d", "e", "t", "e", "r", "m", "i", "n", "e">>,
     <<"t", "r", "a", "n", "s", "f", "e", "r">>,
     <<"F", "l", "o", "o", "r">>,
     <<"c", "l", "a", "u", "s", "e">>,
     <<"s", "q", "u", "a", "r", "e">>,
     <<"f", "e", "e", "t">>,
     <<"h", "e", "l", "l", "o">>}

RECURSIVE QuestionsOf(_)
QuestionsOf(n) ==
    IF n = 0 THEN {<<>>}
    ELSE IF n = 1 THEN Words
    ELSE {q \o <<" ">> \o w : q \in QuestionsOf(n - 1), w \in Words}

Questions == UNION {QuestionsOf(n) : n \in 0..MaxWords}

ClassifyQuestion ==
    /\ last.op = "idle"
    /\ \E question \in Questions :
            last' = [op |-> "classify_question", pre |-> EmptyStore,
                     arg |-> [question |-> question], raised |-> "", top |-> <<>>,
                     result |-> <<ClassifyQuestionOp(question)>>]
    /\ UNCHANGED <<embeddings, texts, metadata, disk, saving, kb>>

NextRouter ==
    \/ ClassifyQuestion
    \/ Return

SpecRouter == Init /\ [][NextRouter]_vars

(* -------------------------- build_vector_store ------------------------- *)

\* get_embedding(text) when the model answers: a vector fixed by the text
EmbedText(text) == IF text = "a" THEN <<1, 0>> ELSE <<0, 1>>

\* get_embeddings(texts): the model raises, or gives one vector for each text
EmbedOutcomes(data) ==
    {[raised |-> TRUE, value |-> <<>>],
     [raised |-> FALSE, value |-> [i \in 1..Len(data) |-> EmbedText(data[i])]]}

\* what one _build_<c>_vector_store call leaves and returns; the flags tell
\* whether self.<c>_vector_store was assigned, whether load and get_embeddings
\* were called and whether save completed
Built(cache, file, returned, assigned, load_called, embed_called, saved) ==
    [cache |-> cache, disk |-> file, returned |-> returned, assigned |-> assigned,
     load_called |-> load_called, embed_called |-> embed_called, saved |-> saved]

\* the except branch left out: a store whose save failed stays cached and is returned
AfterSave_KeepOnFailure(k, store, save, load_called) ==
    Built(Holding(store),
          IF save = "ok" THEN BlobOf(store) ELSE IF save = "partial" THEN Garbage ELSE k.disk,
          Holding(store), TRUE, load_called, TRUE, save = "ok")

\* the store is saved and returned; when save raises, the except branch sets
\* self.<c>_vector_store = None
AfterSave(k, store, save, load_called) ==
    IF save = "ok"
    THEN Built(Holding(store), BlobOf(store), Holding(store), TRUE, load_called, TRUE, TRUE)
    ELSE Built(NoStore, IF save = "partial" THEN Garbage ELSE k.disk, NoStore,
               TRUE, load_called, TRUE, FALSE)

\* _build_<c>_vector_store(force_rebuild) on k = kb[c], `embedded` and `save`
\* being how get_embeddings and save end if they are called
BuildOp(k, force_rebuild, embedded, save) ==
    IF k.cache.set /\ ~force_rebuild
    THEN Built(k.cache, k.disk, k.cache, FALSE, FALSE, FALSE, FALSE)
    ELSE LET load_called == k.disk.exists /\ ~force_rebuild
             loaded == LoadOp(EmptyStore, k.disk)
         IN  IF load_called /\ loaded.raised = ""
             THEN Built(Holding(loaded.store), k.disk, Holding(loaded.store),
                        TRUE, TRUE, FALSE, FALSE)
             ELSE LET cache == IF load_called THEN Holding(loaded.store) ELSE k.cache
                  IN  IF k.data = <<>>
                      THEN Built(cache, k.disk, NoStore, load_called, load_called,
                                 FALSE, FALSE)
                      ELSE IF embedded.raised
                      THEN Built(NoStore, k.disk, NoStore, TRUE, load_called, TRUE, FALSE)
                      ELSE LET added == AddEmbeddingsOp(EmptyStore, embedded.value, k.data,
                                                        [given |-> FALSE, items |-> <<>>])
                           IN  IF added.raised # ""
                               THEN Built(NoStore, k.disk, NoStore, TRUE, load_called,
                                          TRUE, FALSE)
                               ELSE AfterSave(k, added.store, save, load_called)

\* the kb_type values callers pass
KbTypes == Corpora \cup {"other"}

\* what an agent finds when it is created: at each vector path no file, an
\* unparsable one or a saved blob, and source records or none
KBFiles == {NoFile, Garbage, SavedOne}
KBData == {<<>>, <<"a">>}

InitKB ==
    /\ embeddings = <<>>
    /\ texts = <<>>
    /\ metadata = EmptyDict
    /\ last = Idle
    /\ disk = NoFile
    /\ saving = NotSaving
    /\ kb \in [Corpora -> [cache : {NoStore}, disk : KBFiles, data : KBData]]

\* build_vector_store(kb_type, force_rebuild) has returned; `before` is kb[kb_type]
\* as the call found it
BuildReturned(kb_type, force_rebuild, before, exc, b) ==
    [op |-> "build_vector_store", pre |-> EmptyStore,
     arg |-> [kb_type |-> kb_type, force_rebuild |-> force_rebuild, before |-> before],
     raised |-> exc, top |-> <<>>, result |-> <<b>>]

BuildVectorStore ==
    /\ last.op = "idle"
    /\ \E kb_type \in Corpora, force_rebuild \in BOOLEAN :
            \E embedded \in EmbedOutcomes(kb[kb_type].data), save \in SaveOutcomes :
                LET b == BuildOp(kb[kb_type], force_rebuild, embedded, save)
                IN  /\ kb' = [kb EXCEPT ![kb_type] =
                                  [cache |-> b.cache, disk |-> b.disk, data |-> @.data]]
                    /\ last' = BuildReturned(kb_type, force_rebuild, kb[kb_type], "", b)
    /\ UNCHANGED <<embeddings, texts, metadata, disk, saving>>

\* a kb_type that names no knowledge base: raise ValueError
BuildUnknown ==
    /\ last.op = "idle"
    /\ \E kb_type \in KbTypes \ Corpora, force_rebuild \in BOOLEAN :
            last' = [op |-> "build_vector_store", pre |-> EmptyStore,
                     arg |-> [kb_type |-> kb_type, force_rebuild |-> force_rebuild],
                     raised |-> "ValueError", top |-> <<>>, result |-> <<>>]
    /\ UNCHANGED <<embeddings, texts, metadata, disk, saving, kb>>

NextKB ==
    \/ BuildVectorStore
    \/ BuildUnknown
    \/ Return

SpecKB == InitKB /\ [][NextKB]_vars

(* ------------------------------ search_kb ------------------------------ *)

\* what search_kb hands back: the exception it let through, the knowledge base it
\* searched and whether classify_question chose it, the build it ran, whether
\* get_embedding(query) or the store search raised, the store's ranked results and
\* the formatted results returned
Answered(exc, searched, classified, b, query_failed, search_failed, ranked, results) ==
    [raised |-> exc, searched |-> searched, classified |-> classified, build |-> b,
     query_failed |-> query_failed, search_failed |-> search_failed,
     ranked |-> ranked, results |-> results]

\* the loop of _search_property_kb and _search_master_clauses_kb: the i-th result
\* is given source row i, as long as there is one
FormatByRank(kb_type, results, data) ==
    [i \in 1..(IF Len(results) < Len(data) THEN Len(results) ELSE Len(data)) |->
        [type |-> kb_type, data |-> data[i], score |-> results[i].score]]

\* the loop of _search_qa_kb: each result is given the first source row whose
\* answer is the result's text, and is dropped when there is none
RECURSIVE FormatByAnswer(_, _)
FormatByAnswer(results, data) ==
    IF results = <<>> THEN <<>>
    ELSE (IF \E i \in 1..Len(data) : data[i] = Head(results).text
          THEN <<[type |-> "qa",
                  data |-> data[CHOOSE i \in 1..Len(data) :
                                    /\ data[i] = Head(results).text
                                    /\ \A j \in 1..(i - 1) : data[j] # Head(results).text],
                  score |-> Head(results).score]>>
          ELSE <<>>) \o FormatByAnswer(Tail(results), data)

\* a query embedding thrown away and the store never searched
SearchCorpusOp_QueryFailurePropagates(k, kb_type, classified, query_embedding, top_k, embedded, save, order) ==
    LET b == BuildOp(k, FALSE, embedded, save)
    IN  IF ~b.returned.set
        THEN Answered("", kb_type, classified, b, FALSE, FALSE, <<>>, <<>>)
        ELSE Answered(IF query_embedding.raised THEN "Exception" ELSE "", kb_type,
                      classified, b, query_embedding.raised, FALSE, <<>>, <<>>)

\* _search_<c>_kb(query, top_k) on k = kb[c]: the store is built without force,
\* the query embedded and the store searched; `embedded`, `save` and `order` are
\* how get_embeddings, save and np.argsort come out if they are called
SearchCorpusOp(k, kb_type, classified, query_embedding, top_k, embedded, save, order) ==
    LET b == BuildOp(k, FALSE, embedded, save)
    IN  IF ~b.returned.set
        THEN Answered("", kb_type, classified, b, FALSE, FALSE, <<>>, <<>>)
        ELSE IF query_embedding.raised
        THEN Answered("", kb_type, classified, b, TRUE, FALSE, <<>>, <<>>)
        ELSE LET r == SearchOp(b.returned.store, query_embedding.value, top_k, order)
             IN  IF r.raised # ""
                 THEN Answered("", kb_type, classified, b, FALSE, TRUE, <<>>, <<>>)
                 ELSE Answered("", kb_type, classified, b, FALSE, FALSE, r.result,
                               IF kb_type = "qa" THEN FormatByAnswer(r.result, k.data)
                               ELSE FormatByRank(kb_type, r.result, k.data))

\* the knowledge base search_kb goes to: kb_type "None" is kb_type=None
KbTypeFor(question, kb_type) ==
    IF kb_type = "None" THEN ClassifyQuestionOp(question).kb_type ELSE kb_type

\* get_embedding(query): the model raises or gives a vector
QueryOutcomes ==
    {[raised |-> TRUE, value |-> <<>>]} \cup {[raised |-> FALSE, value |-> v] : v \in Vecs}

\* the orders np.argsort can give when the store search is reached
OrdersFor(k, query_embedding, embedded, save) ==
    LET b == BuildOp(k, FALSE, embedded, save)
    IN  IF b.returned.set /\ ~query_embedding.raised
        THEN ArgSorts(b.returned.store, query_embedding.value)
        ELSE {<<>>}

\* the questions asked: "rent", "clause" and "hello"
AskQuestions == {<<"r", "e", "n", "t">>, <<"c", "l", "a", "u", "s", "e">>,
                 <<"h", "e", "l", "l", "o">>}

\* what an agent that is asked finds: the same at each of its three paths, no
\* file, an unparsable one, the blob of the source records or that blob without
\* its texts, and two source records or none
AskData == {<<>>, <<"a", "b">>}
AskBlob == BlobOf(Store(<<EmbedText("a"), EmbedText("b")>>, <<"a", "b">>, EmptyDict))
AskFiles == {NoFile, Garbage, AskBlob, [AskBlob EXCEPT !.keys = @ \ {"texts"}]}

InitAsk ==
    /\ embeddings = <<>>
    /\ texts = <<>>
    /\ metadata = EmptyDict
    /\ last = Idle
    /\ disk = NoFile
    /\ saving = NotSaving
    /\ \E file \in AskFiles, data \in AskData :
            kb = [c \in Corpora |-> [cache |-> NoStore, disk |-> file, data |-> data]]

\* the state of a knowledge base nothing was done to
Untouched == [cache |-> NoStore, disk |-> NoFile, data |-> <<>>]

\* search_kb(query, kb_type, top_k) has returned; `before` is the searched
\* knowledge base as the call found it
Asking(op, question, kb_type, top_k, before, a) ==
    [op |-> op, pre |-> EmptyStore,
     arg |-> [question |-> question, kb_type |-> kb_type, top_k |-> top_k,
              before |-> before],
     raised |-> a.raised, top |-> <<>>, result |-> <<a>>]

SearchKb ==
    /\ last.op = "idle"
    /\ \E question \in AskQuestions, kb_type \in Corpora \cup {"None"}, top_k \in {1, 2} :
            LET c == KbTypeFor(question, kb_type)
            IN  \E query_embedding \in QueryOutcomes, embedded \in EmbedOutcomes(kb[c].data),
                   save \in SaveOutcomes :
                    \E order \in OrdersFor(kb[c], query_embedding, embedded, save) :
                        LET a == SearchCorpusOp(kb[c], c, kb_type = "None", query_embedding,
                                                top_k, embedded, save, order)
                        IN  /\ kb' = [kb EXCEPT ![c] = [cache |-> a.build.cache,
                                                       disk |-> a.build.disk,
                                                       data |-> @.data]]
                            /\ last' = Asking("search_kb", question, kb_type, top_k, kb[c], a)
    /\ UNCHANGED <<embeddings, texts, metadata, disk, saving>>

\* a kb_type that names no knowledge base: the else branch returns []
SearchKbUnknown ==
    /\ last.op = "idle"
    /\ \E question \in AskQuestions, kb_type \in KbTypes \ Corpora, top_k \in {1, 2} :
            last' = Asking("search_kb", question, kb_type, top_k, Untouched,
                           Answered("", "none", FALSE, Built(NoStore, NoFile, NoStore, FALSE,
                                                             FALSE, FALSE, FALSE),
                                    FALSE, FALSE, <<>>, <<>>))
    /\ UNCHANGED <<embeddings, texts, metadata, disk, saving, kb>>

NextAsk ==
    \/ SearchKb
    \/ SearchKbUnknown
    \/ Return

SpecAsk == InitAsk /\ [][NextAsk]_vars

(* --------------------------- the chat endpoints ------------------------ *)

\* the parameters answer_internal_question declares
AnswerParams == {"user_question", "top_k", "qa_csv_path", "property_csv_path",
                 "master_clauses_csv_path", "use_llm"}

\* what answer_internal_question did: the exception it raised, the answer it
\* returned, the knowledge base its agent searched ("none" when it searched
\* none) and whether classify_question chose it, and the build it ran
Replied(exc, answer, searched, classified, b) ==
    [raised |-> exc, answer |-> answer, searched |-> searched, classified |-> classified,
     build |-> b]

NothingBuilt == Built(NoStore, NoFile, NoStore, FALSE, FALSE, FALSE, FALSE)

\* question.strip() is empty
IsBlank(question) == \A i \in 1..Len(question) : question[i] = " "

\* format_simple_response(results): the heading is fixed by the top result's type
SimpleResponse(results) ==
    IF results[1].type = "qa" THEN "**Q:** **A:**"
    ELSE IF results[1].type = "property" THEN "Property Information:"
    ELSE "Contract Information:"

\* answer_internal_question called with the keyword arguments `keywords`: a
\* keyword it does not declare is a TypeError raised before its body runs; `a` is
\* what search_kb(user_question, top_k=top_k) on its new agent comes to, and
\* llm_ok whether the completion call returns
AnswerInternalQuestionOp(keywords, question, a, use_llm, llm_ok) ==
    IF ~(keywords \subseteq AnswerParams)
    THEN Replied("TypeError", "", "none", FALSE, NothingBuilt)
    ELSE IF IsBlank(question)
    THEN Replied("", "Please provide a question.", "none", FALSE, NothingBuilt)
    ELSE IF a.results = <<>>
    THEN Replied("", "No relevant information found", a.searched, a.classified, a.build)
    ELSE IF ~use_llm \/ ~llm_ok
    THEN Replied("", SimpleResponse(a.results), a.searched, a.classified, a.build)
    ELSE Replied("", "completion", a.searched, a.classified, a.build)

\* the knowledge base the endpoints read off the answer text
DetectedKb(answer) ==
    IF answer = "Property Information:" THEN "property"
    ELSE IF answer = "Contract Information:" THEN "master_clauses"
    ELSE IF answer = "**Q:** **A:**" THEN "qa"
    ELSE "unknown"

\* the ChatResponse of an endpoint, with what its call of
\* answer_internal_question did
Responded(success, source, kb_type, answer, reply) ==
    [success |-> success, source |-> source, kb_type |-> kb_type, answer |-> answer,
     searched |-> reply.searched, classified |-> reply.classified]

NoReply == Replied("", "", "none", FALSE, NothingBuilt)

\* chat_router(request); lease_ok is whether answer_lease_question returns
ChatRouterOp(source, question, reply, lease_ok) ==
    IF IsBlank(question)
    THEN Responded(FALSE, source, "None", "Error processing request", NoReply)
    ELSE IF source \in {"internal", "auto", "qa", "property", "master_clauses"}
    THEN IF reply.raised # ""
         THEN Responded(FALSE, source, "None", "Error processing request", reply)
         ELSE Responded(TRUE, "internal", DetectedKb(reply.answer), reply.answer, reply)
    ELSE IF source = "lease"
    THEN IF lease_ok
         THEN Responded(TRUE, "lease", "lease_clauses", "lease answer", NoReply)
         ELSE Responded(FALSE, source, "None", "Error processing request", NoReply)
    ELSE Responded(FALSE, source, "None", "Error processing request", NoReply)

\* chat_internal_enhanced(request)
ChatInternalEnhancedOp(question, reply) ==
    IF IsBlank(question)
    THEN Responded(FALSE, "internal", "None", "Error", NoReply)
    ELSE IF reply.raised # ""
    THEN Responded(FALSE, "internal", "None", "Error", reply)
    ELSE Responded(TRUE, "internal", DetectedKb(reply.answer), reply.answer, reply)

\* the requests: sources and kb_type values, and questions of which one is blank
Sources == {"auto", "internal", "qa", "property", "master_clauses", "lease", "other"}
ChatQuestions == AskQuestions \cup {<<" ">>}

\* the kb_type an endpoint passes on for a source
RequestedKb(source) == IF source \in {"internal", "auto"} THEN "None" ELSE source

\* search_kb(user_question, top_k=top_k) on the new agent of one
\* answer_internal_question call: its caches are empty, files and records are
\* those of kb
NewAgentSearch(question, top_k, query_embedding, embedded, save, order) ==
    LET c == KbTypeFor(question, "None")
    IN  SearchCorpusOp([kb[c] EXCEPT !.cache = NoStore], c, TRUE, query_embedding, top_k,
                       embedded, save, order)

\* the files after the call: the new agent is dropped, what it saved stays
FilesAfter(question, reply) ==
    IF reply.searched \in Corpora
    THEN [kb EXCEPT ![reply.searched] = [@ EXCEPT !.disk = reply.build.disk]]
    ELSE kb

\* an endpoint has responded
Chatted(op, question, source, kb_type, top_k, use_llm, response) ==
    [op |-> op, pre |-> EmptyStore,
     arg |-> [question |-> question, source |-> source, kb_type |-> kb_type,
              top_k |-> top_k, use_llm |-> use_llm],
     raised |-> "", top |-> <<>>, result |-> <<response>>]

ChatRouter ==
    /\ last.op = "idle"
    /\ \E source \in Sources, question \in ChatQuestions, top_k \in {1, 2} :
        \E query_embedding \in QueryOutcomes, save \in SaveOutcomes,
           llm_ok \in BOOLEAN, lease_ok \in BOOLEAN :
            \E embedded \in EmbedOutcomes(kb[KbTypeFor(question, "None")].data) :
                \E order \in OrdersFor([kb[KbTypeFor(question, "None")] EXCEPT !.cache = NoStore],
                                       query_embedding, embedded, save) :
                    LET reply == AnswerInternalQuestionOp(
                                     {"user_question", "top_k", "kb_type"}, question,
                                     NewAgentSearch(question, top_k, query_embedding,
                                                    embedded, save, order),
                                     TRUE, llm_ok)
                        called == ~IsBlank(question) /\ RequestedKb(source) \in Corpora \cup {"None"}
                    IN  /\ last' = Chatted("chat_router", question, source,
                                           RequestedKb(source), top_k, TRUE,
                                           ChatRouterOp(source, question, reply, lease_ok))
                        /\ kb' = IF called THEN FilesAfter(question, reply) ELSE kb
    /\ UNCHANGED <<embeddings, texts, metadata, disk, saving>>

ChatInternalEnhanced ==
    /\ last.op = "idle"
    /\ \E kb_type \in KbTypes \cup {"None"}, question \in ChatQuestions, top_k \in {1, 2},
          use_llm \in BOOLEAN :
        \E query_embedding \in QueryOutcomes, save \in SaveOutcomes, llm_ok \in BOOLEAN :
            \E embedded \in EmbedOutcomes(kb[KbTypeFor(question, "None")].data) :
                \E order \in OrdersFor([kb[KbTypeFor(question, "None")] EXCEPT !.cache = NoStore],
                                       query_embedding, embedded, save) :
                    LET reply == AnswerInternalQuestionOp(
                                     {"user_question", "top_k", "kb_type", "use_llm"},
                                     question,
                                     NewAgentSearch(question, top_k, query_embedding,
                                                    embedded, save, order),
                                     use_llm, llm_ok)
                    IN  /\ last' = Chatted("chat_internal_enhanced", question, "internal",
                                           kb_type, top_k, use_llm,
                                           ChatInternalEnhancedOp(question, reply))
                        /\ kb' = IF IsBlank(question) THEN kb
                                 ELSE FilesAfter(question, reply)
    /\ UNCHANGED <<embeddings, texts, metadata, disk, saving>>

NextChat ==
    \/ ChatRouter
    \/ ChatInternalEnhanced
    \/ Return

SpecChat == InitAsk /\ [][NextChat]_vars

(* =============================== claims ================================ *)

\* a store of records: as many vectors as texts, metadata keyed by positions
LengthsAgree(s) == Len(s.embeddings) = Len(s.texts)

KeysValid(s) == \A p \in DOMAIN s.metadata : 0 <= p /\ p < Len(s.texts)

WellFormed(s) == LengthsAgree(s) /\ KeysValid(s)

\* the record at Python position p as a (vector, text, metadata-or-None) triple
Triple(s, p) ==
    <<s.embeddings[p + 1], s.texts[p + 1],
      IF p \in DOMAIN s.metadata THEN s.metadata[p] ELSE "None">>

Triples(s) == [i \in 1..Len(s.texts) |-> Triple(s, i - 1)]

\* the positions of s that a list of indices names
Named(s, indices) ==
    {indices[i] : i \in DOMAIN indices} \cap (0..(Len(s.texts) - 1))

\* the triples of s with the positions in R deleted, the others in their order
Without(s, R) ==
    LET keep == SortedAsc((0..(Len(s.texts) - 1)) \ R)
    IN  [i \in 1..Len(keep) |-> Triple(s, keep[i])]

\* C1: in every reachable state the number of stored vectors equals the number of
\* stored texts.
C1_LengthsEqual == Len(embeddings) = Len(texts)

\* C2: in every reachable state every key of the metadata map is a valid current
\* position: 0 <= p < number of texts.
C2_MetadataKeysValid == \A p \in DOMAIN metadata : 0 <= p /\ p < Len(texts)

\* C3: remove_by_index(indices) on a store of records returns normally and leaves
\* exactly the original (vector, text, metadata-or-None) triples whose positions
\* are not listed, in their original order: metadata above a removed index moves
\* down with its record, metadata below stays, metadata at a removed index goes.
C3_RemovePreservesAssociation ==
    (last.op = "remove_by_index" /\ WellFormed(last.pre)) =>
        /\ last.raised = ""
        /\ WellFormed(Current)
        /\ Triples(Current) = Without(last.pre, Named(last.pre, last.arg.indices))

C3_Witness ==
    /\ last.op = "remove_by_index"
    /\ WellFormed(last.pre)
    /\ Len(last.pre.texts) = 3
    /\ DOMAIN last.pre.metadata = {0, 2}
    /\ last.arg.indices = <<1>>
    /\ DOMAIN metadata = {0, 1}
    /\ texts # <<"a", "a">> /\ texts # <<"b", "b">>

\* C4: for two valid positions j < i of a store of records, the single call
\* remove_by_index([i, j]) (the two given in either order) leaves the same
\* vectors, texts and metadata as remove_by_index([i]) followed by
\* remove_by_index([j]).
C4_RemoveTwoAsOneCall ==
    (/\ last.op = "remove_by_index"
     /\ WellFormed(last.pre)
     /\ Len(last.arg.indices) = 2
     /\ last.arg.indices[1] # last.arg.indices[2]
     /\ Cardinality(Named(last.pre, last.arg.indices)) = 2) =>
        LET a == last.arg.indices[1]
            b == last.arg.indices[2]
            i == IF a > b THEN a ELSE b
            j == IF a > b THEN b ELSE a
            first == RemoveByIndexOp(last.pre, <<i>>)
            second == RemoveByIndexOp(first.store, <<j>>)
        IN  /\ first.raised = "" /\ second.raised = "" /\ last.raised = ""
            /\ Current = second.store

C4_Witness ==
    /\ last.op = "remove_by_index"
    /\ WellFormed(last.pre)
    /\ Len(last.pre.texts) = 3
    /\ last.arg.indices = <<0, 1>>
    /\ 2 \in DOMAIN last.pre.metadata
    /\ Len(texts) = 1
    /\ 0 \in DOMAIN metadata

\* C5: remove_by_index tolerates duplicate and out-of-range indices.  An index
\* that is negative or >= the current length is a no-op, so a call naming no
\* valid position returns normally and leaves vectors, texts and metadata as
\* they were; on a store of records the call never raises and an index listed
\* several times removes its record once (the length drops by the number of
\* distinct valid positions listed, and the other records stay).
C5_RemoveToleratesBadIndices ==
    (last.op = "remove_by_index") =>
        /\ Named(last.pre, last.arg.indices) = {} =>
               (last.raised = "" /\ Current = last.pre)
        /\ LengthsAgree(last.pre) =>
               /\ last.raised = ""
               /\ Len(texts) =
                      Len(last.pre.texts) - Cardinality(Named(last.pre, last.arg.indices))
               /\ Len(embeddings) = Len(texts)
               /\ \A p \in 0..(Len(last.pre.texts) - 1) :
                      p \notin Named(last.pre, last.arg.indices) =>
                          \E r \in 0..(Len(texts) - 1) :
                              /\ texts[r + 1] = last.pre.texts[p + 1]
                              /\ embeddings[r + 1] = last.pre.embeddings[p + 1]

C5_Witness ==
    /\ last.op = "remove_by_index"
    /\ last.arg.indices = <<1, 1>>
    /\ Len(last.pre.texts) = 3
    /\ LengthsAgree(last.pre)
    /\ Len(texts) = 2
    /\ last.pre.texts = <<"a", "a", "b">>
    /\ texts = <<"a", "b">>

\* C6: add_embeddings(vectors, texts, metadata) fails with a mismatch error
\* whenever len(vectors) # len(texts), and whenever a metadata list is given
\* (an empty list included) whose length differs from len(texts).
C6_AddRejectsMismatch ==
    (/\ last.op = "add_embeddings"
     /\ \/ Len(last.arg.embeddings) # Len(last.arg.texts)
        \/ /\ last.arg.metadata.given
           /\ Len(last.arg.metadata.items) # Len(last.arg.texts)) =>
        last.raised = "ValueError"

(* --------------------------- claims on search -------------------------- *)

\* the positions a ranking leaves out
LeftOut(s, top) == (0..(Len(s.embeddings) - 1)) \ {top[i] : i \in DOMAIN top}

Min(a, b) == IF a < b THEN a ELSE b

\* C7: search(q, k) on a non-empty store returns distinct stored records, each
\* with its text, metadata and cosine similarity to q, ordered by non-increasing
\* score; no record left out scores strictly higher than a returned one; and for
\* 0 <= k it returns min(k, record_count) of them.
C7_SearchReturnsTopK ==
    (last.op = "search" /\ last.raised = "" /\ last.pre.embeddings # <<>>) =>
        LET s == last.pre
            q == last.arg.q
            k == last.arg.k
            top == last.top
            res == last.result
        IN  /\ Len(res) = Len(top)
            /\ \A a \in DOMAIN top : top[a] \in 0..(Len(s.embeddings) - 1)
            /\ \A a, b \in DOMAIN top : a # b => top[a] # top[b]
            /\ \A a \in DOMAIN res :
                   /\ res[a].text = s.texts[top[a] + 1]
                   /\ res[a].score = Cosine(q, s.embeddings[top[a] + 1])
                   /\ res[a].metadata = Triple(s, top[a])[3]
            /\ \A a, b \in DOMAIN res : a < b => ScoreLeq(res[b].score, res[a].score)
            /\ \A p \in LeftOut(s, top) : \A a \in DOMAIN res :
                   ScoreLeq(Cosine(q, s.embeddings[p + 1]), res[a].score)
            /\ k >= 0 => Len(res) = Min(k, Len(s.embeddings))

\* three records, the first closest to q, the third second-closest: search(q, 2)
\* returns the first and then the third
C7_Witness ==
    /\ last.op = "search"
    /\ last.raised = ""
    /\ last.arg.q = <<2, 1>>
    /\ last.arg.k = 2
    /\ last.pre.embeddings = <<(<<1, 1>>), (<<0, 1>>), (<<1, 0>>)>>
    /\ last.pre.texts = <<"a", "b", "b">>
    /\ last.top = <<0, 2>>
    /\ Len(last.result) = 2
    /\ last.result[1].text = "a"
    /\ ScoreLess(last.result[2].score, last.result[1].score)

\* C8: when two stored records have equal similarity to the query, search puts
\* the one at the lower position first, and if only one of them is returned it is
\* the one at the lower position.
C8_TiesByInsertionOrder ==
    (last.op = "search" /\ last.raised = "") =>
        LET s == last.pre
            q == last.arg.q
            top == last.top
        IN  /\ \A a, b \in DOMAIN top :
                   (a < b /\ Cosine(q, s.embeddings[top[a] + 1])
                                = Cosine(q, s.embeddings[top[b] + 1])) => top[a] < top[b]
            /\ \A p \in LeftOut(s, top) : \A a \in DOMAIN top :
                   Cosine(q, s.embeddings[p + 1]) = Cosine(q, s.embeddings[top[a] + 1])
                       => top[a] < p

Max(a, b) == IF a > b THEN a ELSE b

\* C9: for every integer k, search(q, k) returns at most min(k, record_count)
\* results (none when that is negative); on an empty store it returns the empty
\* sequence; and when k exceeds the number of records it returns every record
\* exactly once.
C9_SearchResultCount ==
    (last.op = "search" /\ last.raised = "") =>
        LET n == Len(last.pre.embeddings)
            k == last.arg.k
        IN  /\ Len(last.result) <= Max(0, Min(k, n))
            /\ n = 0 => last.result = <<>>
            /\ k > n => /\ Len(last.top) = n
                        /\ {last.top[i] : i \in DOMAIN last.top} = 0..(n - 1)

\* the results of a ranking that a filter function accepts, in ranked order
RECURSIVE Accepted(_, _)
Accepted(f, ranked) ==
    IF ranked = <<>> THEN <<>>
    ELSE LET r == Head(ranked)
             rest == Accepted(f, Tail(ranked))
         IN  IF Accepts(f, r.text, IF r.metadata = "None" THEN "{}" ELSE r.metadata)
             THEN <<r>> \o rest ELSE rest

\* C10: search_with_filter(q, k, predicate), k >= 0, returns exactly the first k
\* records (fewer only if the ranking is exhausted) of the full similarity
\* ranking that satisfy the predicate, in ranked order; so never more than k
\* results, k = 0 included.
C10_FilterThenFirstK ==
    (/\ last.op = "search_with_filter"
     /\ last.raised = ""
     /\ last.arg.filter # "None"
     /\ last.arg.k >= 0
     /\ last.pre.embeddings # <<>>) =>
        LET s == last.pre
            ranked == [i \in 1..Len(last.top) |-> ResultAt(s, last.arg.q, last.top[i])]
            passing == Accepted(last.arg.filter, ranked)
        IN  /\ Len(last.top) = Len(s.embeddings)
            /\ Len(last.result) <= last.arg.k
            /\ last.result = SubSeq(passing, 1, Min(last.arg.k, Len(passing)))

(* ---------------------- claims on update and load ---------------------- *)

\* the metadata of the record at position p, "None" when it has none
MetaAt(s, p) == IF p \in DOMAIN s.metadata THEN s.metadata[p] ELSE "None"

\* C11: update_text(index, new_text, new_vector?, new_metadata?) at an index that
\* is negative or >= the length fails with IndexError; at a valid position of a
\* store of records it returns normally, sets the text, replaces the vector and
\* the metadata only when one is supplied (an omitted or empty one keeps the old
\* value), and leaves the length and every other position's vector, text and
\* metadata as they were.
C11_UpdateTouchesOneRecord ==
    (last.op = "update_text") =>
        LET pre == last.pre
            a == last.arg
            valid == 0 <= a.index /\ a.index < Len(pre.texts)
        IN  /\ ~valid => last.raised = "IndexError"
            /\ (valid /\ LengthsAgree(pre)) =>
                   /\ last.raised = ""
                   /\ Len(texts) = Len(pre.texts)
                   /\ Len(embeddings) = Len(pre.embeddings)
                   /\ texts[a.index + 1] = a.new_text
                   /\ embeddings[a.index + 1] =
                          (IF a.new_embedding # <<>> THEN a.new_embedding
                           ELSE pre.embeddings[a.index + 1])
                   /\ MetaAt(Current, a.index) =
                          (IF Truthy(a.new_metadata) THEN a.new_metadata
                           ELSE MetaAt(pre, a.index))
                   /\ (DOMAIN metadata) \ {a.index} = (DOMAIN pre.metadata) \ {a.index}
                   /\ \A p \in 0..(Len(pre.texts) - 1) :
                          p # a.index =>
                              /\ texts[p + 1] = pre.texts[p + 1]
                              /\ embeddings[p + 1] = pre.embeddings[p + 1]
                              /\ MetaAt(Current, p) = MetaAt(pre, p)

\* the text of the middle record of three is replaced, vector and metadata omitted
C11_Witness ==
    /\ last.op = "update_text"
    /\ last.raised = ""
    /\ WellFormed(last.pre)
    /\ Len(last.pre.texts) = 3
    /\ last.arg.index = 1
    /\ last.arg.new_embedding = <<>>
    /\ last.arg.new_metadata = "None"
    /\ last.pre.texts[2] = "a"
    /\ last.arg.new_text = "b"
    /\ last.pre.embeddings[2] = <<1, 0>>
    /\ 1 \in DOMAIN last.pre.metadata
    /\ texts[2] = "b"
    /\ embeddings[2] = <<1, 0>>
    /\ 1 \in DOMAIN metadata

\* C13: a successful load(path) on a store that already holds records replaces
\* the state wholesale: afterwards vectors, texts and metadata are exactly those
\* of the blob (empty for a key the blob lacks), and nothing of the previous
\* in-memory state remains.
C13_LoadReplacesWholesale ==
    (/\ last.op = "load"
     /\ last.raised = ""
     /\ last.pre.texts # <<>>) =>
        LET file == last.arg.file
        IN  /\ embeddings = (IF "embeddings" \in file.keys THEN file.embeddings ELSE <<>>)
            /\ texts = (IF "texts" \in file.keys THEN file.texts ELSE <<>>)
            /\ metadata = (IF "metadata" \in file.keys THEN file.metadata ELSE EmptyDict)

\* a blob of two records is loaded over three records with other metadata keys
C13_Witness ==
    /\ last.op = "load"
    /\ last.raised = ""
    /\ Len(last.pre.texts) = 3
    /\ DOMAIN last.pre.metadata = {0, 2}
    /\ last.arg.file = SavedTwo
    /\ Current = Store(SavedTwo.embeddings, SavedTwo.texts, SavedTwo.metadata)
    /\ DOMAIN metadata = {1}

\* C14: load(path) fails with a corrupt-data error when the blob cannot be parsed
\* or lacks a required field (the vector array or the text array); only a missing
\* optional field such as metadata is defaulted to empty.
C14_LoadRejectsMissingField ==
    (/\ last.op = "load"
     /\ last.arg.file.exists
     /\ \/ ~last.arg.file.parses
        \/ "embeddings" \notin last.arg.file.keys
        \/ "texts" \notin last.arg.file.keys) =>
        last.raised # ""

(* ------------------------ claims on save and load ---------------------- *)

\* C12: round trip: for any store S, after S.save(path) has returned normally a
\* fresh store's load(path) succeeds with texts, vectors and metadata equal to
\* those of S, and the save has left S itself unchanged.
C12_SaveLoadRoundTrip ==
    /\ (last.op = "save" /\ last.raised = "") =>
            /\ Current = last.pre
            /\ LoadOp(EmptyStore, disk) = Outcome(Current, "")
    /\ (last.op = "load_elsewhere" /\ saving.pc = "no" /\ disk = BlobOf(Current)) =>
            /\ last.raised = ""
            /\ last.result = <<Current>>

\* a store of two records, one with metadata, is saved over an older blob and
\* then loaded by a fresh store
C12_Witness ==
    /\ last.op = "load_elsewhere"
    /\ last.raised = ""
    /\ saving.pc = "no"
    /\ disk = BlobOf(Current)
    /\ Len(texts) = 2
    /\ DOMAIN metadata = {1}
    /\ last.result[1].metadata = [p \in {1} |-> "m1"]

\* C15: save(path) replaces the file atomically: a load of the same path, by the
\* store itself or by another store while a save is under way, never observes an
\* empty or truncated file, and after a save that fails the file holds the
\* complete content it held before.
C15_SaveIsAtomic ==
    /\ (last.op \in {"load", "load_elsewhere"} /\ last.arg.file.exists) =>
            last.arg.file.parses
    /\ (last.op = "save" /\ last.raised # "") => disk = last.arg.prev

(* ------------------------ claims on find_duplicates -------------------- *)

\* the positions cluster c holds
Members(c) == {c[x] : x \in 1..Len(c)}

\* C16: for any store and threshold, find_duplicates returns clusters that are
\* pairwise disjoint, each of at least 2 distinct valid positions with its lowest
\* member first, listed in strictly ascending order of their lowest member.
C16_ClustersDisjointAndOrdered ==
    (last.op = "find_duplicates" /\ last.raised = "") =>
        LET d == last.result
            n == Len(last.pre.embeddings)
        IN  /\ \A c \in 1..Len(d) :
                   /\ Len(d[c]) >= 2
                   /\ Cardinality(Members(d[c])) = Len(d[c])
                   /\ Members(d[c]) \subseteq 0..(n - 1)
                   /\ \A x \in 2..Len(d[c]) : d[c][1] < d[c][x]
            /\ \A c1, c2 \in 1..Len(d) :
                   c1 < c2 => /\ d[c1][1] < d[c2][1]
                              /\ Members(d[c1]) \cap Members(d[c2]) = {}

\* two pairs of identical vectors, interleaved, at threshold 1.0: two clusters
C16_Witness ==
    /\ last.op = "find_duplicates"
    /\ last.raised = ""
    /\ last.arg.threshold = [sign |-> 1, num |-> 1, den |-> 1]
    /\ last.pre.embeddings = <<(<<1, 0>>), (<<0, 1>>), (<<1, 0>>), (<<0, 1>>)>>
    /\ last.result = <<(<<0, 2>>), (<<1, 3>>)>>

(* ----------------------- claims on classify_question ------------------- *)

\* a character that is part of a word
IsWordChar(c) == c \notin {" ", "-"}

\* the keyword occurs in str as a whole word: at some offset, with no word
\* character right before it or right after it
ContainsWord(str, keyword) ==
    \E p \in 1..(Len(str) - Len(keyword) + 1) :
        /\ SubSeq(str, p, p + Len(keyword) - 1) = keyword
        /\ p = 1 \/ ~IsWordChar(str[p - 1])
        /\ p + Len(keyword) - 1 = Len(str) \/ ~IsWordChar(str[p + Len(keyword)])

\* how many of the keywords occur in str as whole words
WholeWordMatches(keywords, str) ==
    Cardinality({i \in 1..Len(keywords) : ContainsWord(str, keywords[i])})

\* C17: classify_question counts a corpus keyword only when it occurs in the
\* query as a whole word, case-insensitively: each corpus's count is the number
\* of its keywords that occur as whole words, so a keyword that appears only
\* inside a longer word contributes 0.
C17_WholeWordMatches ==
    (last.op = "classify_question") =>
        LET r == last.result[1]
            question_lower == Lower(last.arg.question)
        IN  /\ r.property_matches = WholeWordMatches(property_keywords, question_lower)
            /\ r.legal_matches = WholeWordMatches(legal_keywords, question_lower)

\* C18: classify_question returns 'property' or 'master_clauses' only when that
\* knowledge base's keyword count is strictly greater than the other's; whenever
\* the counts tie, all zero included, it returns the default 'qa'; the result is
\* always one of the three names.
C18_StrictMajorityElseDefault ==
    (last.op = "classify_question") =>
        LET r == last.result[1]
        IN  /\ r.kb_type \in {"qa", "property", "master_clauses"}
            /\ r.kb_type = "property" => r.property_matches > r.legal_matches
            /\ r.kb_type = "master_clauses" => r.legal_matches > r.property_matches
            /\ r.property_matches = r.legal_matches => r.kb_type = "qa"

\* "Floor clause": one keyword of each knowledge base, a tie above zero
C18_Witness ==
    /\ last.op = "classify_question"
    /\ last.arg.question
           = <<"F", "l", "o", "o", "r", " ", "c", "l", "a", "u", "s", "e">>
    /\ last.result[1].property_matches = 1
    /\ last.result[1].legal_matches = 1
    /\ last.result[1].kb_type = "qa"

(* ----------------------- claims on build_vector_store ------------------ *)

\* a build_vector_store call on one of the knowledge bases has just returned
JustBuilt == last.op = "build_vector_store" /\ last.raised = ""

\* whenever a build returns a store it has just embedded, the save to the
\* knowledge base's path has completed and the file holds that store's content
SavedBeforeReturned ==
    LET b == last.result[1]
    IN  (b.returned.set /\ b.embed_called) =>
            /\ b.saved
            /\ kb[last.arg.kb_type].disk = BlobOf(b.returned.store)
            /\ kb[last.arg.kb_type].cache = b.returned

\* C19 as stated: on first use without force, if a persisted blob exists it is
\* loaded and no embedding call is made; otherwise the source records are
\* embedded; and a freshly embedded store is returned only after its save has
\* completed, the file holding exactly its content.
C19_LazyBuildLoadsExistingBlob ==
    JustBuilt =>
        LET b == last.result[1]
            before == last.arg.before
        IN  /\ (~last.arg.force_rebuild /\ ~before.cache.set) =>
                   IF before.disk.exists
                   THEN b.load_called /\ b.returned.set /\ ~b.embed_called
                   ELSE before.data # <<>> => b.embed_called
            /\ SavedBeforeReturned

\* C19, amended: on first use without force, if a persisted blob exists and
\* loading it succeeds, the loaded store is returned and no embedding call is
\* made; if no blob exists or loading it fails, the source records, when there
\* are any, are embedded; and a freshly embedded store is returned only after its
\* save has completed, the file holding exactly its content.
C19_LazyBuildLoadsOrEmbeds ==
    JustBuilt =>
        LET b == last.result[1]
            before == last.arg.before
            loaded == LoadOp(EmptyStore, before.disk)
        IN  /\ (~last.arg.force_rebuild /\ ~before.cache.set) =>
                   IF before.disk.exists /\ loaded.raised = ""
                   THEN /\ b.load_called
                        /\ ~b.embed_called
                        /\ b.returned = Holding(loaded.store)
                        /\ kb[last.arg.kb_type].cache = b.returned
                        /\ kb[last.arg.kb_type].disk = before.disk
                   ELSE /\ b.load_called = before.disk.exists
                        /\ b.embed_called = (before.data # <<>>)
                        /\ before.data = <<>> => ~b.returned.set
            /\ SavedBeforeReturned

\* first use with an unparsable file at the path: the load fails, the records
\* are embedded and the new store is saved over the file and returned
C19_Witness ==
    /\ JustBuilt
    /\ ~last.arg.force_rebuild
    /\ ~last.arg.before.cache.set
    /\ last.arg.before.disk = Garbage
    /\ last.result[1].load_called
    /\ last.result[1].embed_called
    /\ last.result[1].returned.set
    /\ last.result[1].returned.store.texts = <<"a">>
    /\ kb[last.arg.kb_type].disk = BlobOf(last.result[1].returned.store)

\* C20: build_vector_store(kb_type, force_rebuild=True) bypasses the cached store
\* and the persisted blob and re-embeds from the source: it loads nothing, a store
\* it returns is freshly embedded, and afterwards the cached store is never the
\* store that was cached before the call.
C20_ForceRebuildDropsCache ==
    (JustBuilt /\ last.arg.force_rebuild) =>
        LET b == last.result[1]
            before == last.arg.before
        IN  /\ ~b.load_called
            /\ b.returned.set => b.embed_called
            /\ before.data # <<>> => b.embed_called
            /\ (before.cache.set /\ kb[last.arg.kb_type].cache.set) => b.assigned

(* ------------------- claims on dimensions and failures ----------------- *)

\* C22: the vector dimension is constant per store and enforced: in every state
\* reached by adds and updates all stored vectors have the same length.
C22_OneDimensionPerStore ==
    \A i, j \in 1..Len(embeddings) : Len(embeddings[i]) = Len(embeddings[j])

\* add_embeddings([v], [t], [m]), or add_embeddings([v], [t]) when m is omitted
AsBatchOfOne(s, a) ==
    AddEmbeddingsOp(s, <<a.embedding>>, <<a.text>>,
                    IF a.metadata = "None" THEN [given |-> FALSE, items |-> <<>>]
                    ELSE [given |-> TRUE, items |-> <<a.metadata>>])

\* C23: add_single_text(v, t, m) leaves the same vectors, texts and metadata map
\* as add_embeddings([v], [t], [m]) does, the empty mapping included, and with m
\* omitted the same as add_embeddings([v], [t]).
C23_SingleIsBatchOfOne ==
    (last.op = "add_single_text") =>
        /\ Current = AsBatchOfOne(last.pre, last.arg).store
        /\ last.raised = AsBatchOfOne(last.pre, last.arg).raised

\* C24: search(q, k) on a non-empty store raises whenever the length of q differs
\* from the length of the stored vectors, and returns no scored result then.
C24_SearchRejectsWrongLength ==
    (/\ last.op = "search"
     /\ last.pre.embeddings # <<>>
     /\ \E i \in 1..Len(last.pre.embeddings) :
            Len(last.pre.embeddings[i]) # Len(last.arg.q)) =>
        /\ last.raised = "ValueError"
        /\ last.result = <<>>
        /\ last.top = <<>>

\* a query of length 1 against two stored vectors of length 2
C24_Witness ==
    /\ last.op = "search"
    /\ Len(last.pre.embeddings) = 2
    /\ \A i \in 1..2 : Len(last.pre.embeddings[i]) = 2
    /\ last.arg.q = <<1>>
    /\ last.arg.k = 1
    /\ last.raised = "ValueError"

\* C26: whenever add_embeddings, update_text or load raises, the store's vectors,
\* texts and metadata are exactly what they were before the call.
C26_FailedCallLeavesStore ==
    (/\ last.op \in {"add_embeddings", "update_text", "load"}
     /\ last.raised # "") =>
        Current = last.pre

\* C29: find_duplicates(threshold) omits a position only if it is a true
\* singleton: every position with some other position at cosine similarity >=
\* threshold appears in a returned cluster.
C29_OnlySingletonsOmitted ==
    (last.op = "find_duplicates" /\ last.raised = "" /\ Len(last.pre.embeddings) >= 2) =>
        \A p, o \in 0..(Len(last.pre.embeddings) - 1) :
            (/\ p # o
             /\ ScoreLeq(last.arg.threshold,
                         Cosine(last.pre.embeddings[p + 1], last.pre.embeddings[o + 1]))) =>
                \E c \in 1..Len(last.result) : p \in Members(last.result[c])

(* ------------------------ claims on read-only calls -------------------- *)

\* C30: search, search_with_filter, find_duplicates, get_stats and save are
\* read-only: after any of them, returned or raised, vectors, texts and metadata
\* are what they were; get_stats reports the record count, the vector dimension
\* (0 when the store is empty) and whether the metadata map is non-empty.
C30_ReadOnlyCalls ==
    /\ (last.op \in {"search", "search_with_filter", "find_duplicates", "get_stats", "save"}) =>
           Current = last.pre
    /\ (last.op = "get_stats") =>
           /\ last.raised = ""
           /\ last.result[1].total_texts = Len(texts)
           /\ last.result[1].embedding_dimension =
                  (IF embeddings = <<>> THEN 0 ELSE Len(embeddings[1]))
           /\ last.result[1].has_metadata = (DOMAIN metadata # {})

\* get_stats on two records with vectors of length 2 and metadata
C30_Witness ==
    /\ last.op = "get_stats"
    /\ texts = <<"a", "a">>
    /\ embeddings = <<(<<1, 0>>), (<<1, 0>>)>>
    /\ DOMAIN metadata = {0, 1}
    /\ last.result[1].total_texts = 2
    /\ last.result[1].embedding_dimension = 2
    /\ last.result[1].has_metadata

(* --------------------------- claims on search_kb ----------------------- *)

\* a search_kb call has just come back
JustAsked == last.op = "search_kb"

\* something search_kb relies on raised during the call: the load of the blob,
\* the embedding of the source records or the save of the new store, the
\* embedding of the query, or the store search
UpstreamFailed(a, before) ==
    \/ a.build.load_called /\ LoadOp(EmptyStore, before.disk).raised # ""
    \/ a.build.embed_called /\ ~a.build.saved
    \/ a.query_failed
    \/ a.search_failed

\* C21 as stated: search_kb never raises, and if embedding the source records,
\* embedding the query, loading the blob or the store search raises, it returns
\* an empty list, for every knowledge base and for an unknown kb_type.
C21_FailureGivesEmptyList ==
    JustAsked =>
        /\ last.raised = ""
        /\ last.result[1].searched = "none" => last.result[1].results = <<>>
        /\ (/\ last.result[1].searched \in Corpora
            /\ UpstreamFailed(last.result[1], last.arg.before)) =>
               last.result[1].results = <<>>

\* C21, amended: search_kb never raises; it returns an empty list for an unknown
\* kb_type and whenever no store comes out of the build, the embedding of the
\* query raises or the store search raises; when loading the blob raises it
\* falls back to embedding the source records and answers from that store.
C21_NeverRaises ==
    JustAsked =>
        LET a == last.result[1]
        IN  /\ last.raised = ""
            /\ a.searched = "none" => a.results = <<>>
            /\ (/\ a.searched \in Corpora
                /\ \/ ~a.build.returned.set
                   \/ a.query_failed
                   \/ a.search_failed) =>
                   a.results = <<>>
            /\ (/\ a.searched \in Corpora
                /\ a.build.embed_called
                /\ ~a.build.saved) =>
                   a.results = <<>>

\* the blob lacks its texts, so the store search raises IndexError inside
\* search_kb, which returns the empty list
C21_Witness ==
    /\ JustAsked
    /\ last.raised = ""
    /\ last.result[1].searched = "property"
    /\ last.result[1].build.returned.set
    /\ last.result[1].search_failed
    /\ last.result[1].results = <<>>

\* C27: for the property and master_clauses knowledge bases the data row returned
\* at rank r is the source row of the store entry ranked r-th for the query (the
\* row whose text that entry holds), not the r-th row of the source file.
C27_RowOfRankedEntry ==
    (JustAsked /\ last.result[1].searched \in {"property", "master_clauses"}) =>
        LET a == last.result[1]
        IN  \A r \in 1..Len(a.results) : a.results[r].data = a.ranked[r].text

\* C28: after any build_vector_store call, with or without force and whatever
\* fails in it, the store the call put in the cache holds the content of a
\* successful load or of a successful embed, add and save; a failed load never
\* leaves an empty store in the cache.
C28_CacheHoldsBuiltStore ==
    JustBuilt =>
        LET b == last.result[1]
            before == last.arg.before
            cache == kb[last.arg.kb_type].cache
            loaded == LoadOp(EmptyStore, before.disk)
        IN  (b.assigned /\ cache.set) =>
                \/ /\ b.load_called
                   /\ loaded.raised = ""
                   /\ cache.store = loaded.store
                \/ /\ b.saved
                   /\ kb[last.arg.kb_type].disk = BlobOf(cache.store)

(* ------------------------ claims on the chat endpoints ----------------- *)

\* C25: a request to the chat endpoints that names a knowledge base (qa,
\* property or master_clauses) is answered by searching exactly that knowledge
\* base without keyword classification, and the response reports success; a
\* request with source auto or internal (no kb_type) is answered from the
\* knowledge base classify_question detects.
C25_NamedKbIsSearched ==
    (/\ last.op \in {"chat_router", "chat_internal_enhanced"}
     /\ ~IsBlank(last.arg.question)) =>
        LET response == last.result[1]
        IN  /\ last.arg.kb_type \in Corpora =>
                   /\ response.success
                   /\ response.searched = last.arg.kb_type
                   /\ ~response.classified
            /\ last.arg.kb_type = "None" =>
                   /\ response.success
                   /\ response.searched = ClassifyQuestionOp(last.arg.question).kb_type
                   /\ response.classified

====
